---- MODULE Spec2Model ----
(***************************************************************************)
(* Cosa buffered UART driver (Cosa/IOStream/Driver/UART.cpp, hardware      *)
(* variant): main-line begin/end/putchar/getchar against the data-register *)
(* empty and receive-complete interrupt handlers.                          *)
(*                                                                         *)
(* Main-line executes one statement of putchar per step; an interrupt      *)
(* handler runs to completion in one step (the AVR clears the global       *)
(* interrupt flag on entry and restores it on return).  begin, end and     *)
(* getchar are single steps.  The ring buffer class IOBuffer is modelled   *)
(* from its documented contract (put, get, flush over head, tail, count).  *)
(*                                                                         *)
(* Further parts, each under a specification of its own that leaves the    *)
(* rest at its initial state: the software variant of the port on one      *)
(* digital pin (TinySpec), the handlers of the second hardware channel     *)
(* (Uart1Spec) and Rotary::Dial of Cosa/Rotary.hh (DialSpec).              *)
(***************************************************************************)
EXTENDS Integers, Sequences, FiniteSets

\* ------------------------------------------------------------- bounds
\* UART::BUFFER_MAX, the capacity of ibuffer/obuffer (small for checking).
BUFFER_MAX == 2

\* --------------------------------------------------- program constants
\* Mask of the data-bit count in the frame format of the software variant.
DATA_MASK == 15
\* Rotary::Encoder::Direction (Rotary.hh lines 108, 109).
CW == 16
CCW == 32
\* Clock frequency in Hz (build-time macro; the value of the documented
\* example).
F_CPU == 16000000
\* Largest divisor accepted for double rate (UART.cpp line 84).
UBRR_MAX == 4095

\* Bits of UCSRnA / UCSRnB; a register is the set of its bits that are 1.
U2X0 == "U2X0"
RXCIE0 == "RXCIE0"
UDRIE0 == "UDRIE0"
RXEN0 == "RXEN0"
TXEN0 == "TXEN0"

\* Bytes passed to putchar and received from the line.
Bytes == {0, 1}
\* The byte passed to putchar and received from the line while both
\* channels are in use: it differs from the 0 the buffers are cleared to.
Bytes1 == {1}
\* Baud rates and frame formats offered to begin while the port carries
\* traffic: 9600 fits double rate, 300 only single rate.
Bauds == {300, 9600}
Formats == {6}
\* Baud rates and formats offered to begin in the configuration runs:
\* 9600 .. 2000000 fit double rate, 300 and 1200 fit only single rate, 100
\* fits neither, 15 and 30 overflow the 16 bit setting, 4000000 is above
\* F_CPU / 8.
CfgBauds == {15, 30, 100, 300, 1200, 9600, 115200, 2000000, 4000000}
CfgFormats == {6, 14}

\* Software variant: baud rates and formats offered to begin (5, 7 and 8
\* data bits; 24 is 8 data bits with a flag above DATA_MASK), and the
\* values of the char passed to putchar (0x41, 0x5A, 0x00, 0xFF, 0x80).
TinyBauds == {9600, 19200, 115200}
TinyFormats == {5, 7, 8, 24}
TinyChars == {65, 90, 0, -1, -128}
\* Interrupt handler runs recorded per software putchar.
MaxIsr == 2

\* Rotary::Dial<uint8_t>: initial, min and max are drawn from 0..DialTop
\* with min <= initial <= max; steps offered to the constructor and to
\* set_cycle.
DialTop == 3
DialSteps == {0, 1, 2, 3}

VARIABLES
  obuf,      \* output IOBuffer (obuffer)
  ibuf,      \* input IOBuffer (ibuffer)
  UCSRnA,    \* status register A: set of bits
  UCSRnB,    \* control register B: set of bits
  UCSRnC,    \* frame format register
  UBRRn,     \* baud rate register (16 bit)
  UDR0,      \* transmit data register: the last byte written to it
  SREG_I,    \* global interrupt enable flag
  SMCR_SE,   \* sleep enable bit
  pc,        \* main-line position: "idle" or a statement of putchar
  m_c,       \* argument c of the putchar call in progress
  unsent,    \* history: bytes putchar enqueued that are not yet written
             \* to UDR0, oldest first
  unread,    \* history: bytes the receive handler enqueued that getchar
             \* has not yet returned, oldest first
  last,      \* history: the last completed operation [op, arg, ret]
  entry_I,   \* history: SREG_I as the putchar call in progress (or the
             \* last one) found it on entry
  \* software variant (ATtiny): UART on one digital pin
  m_period,  \* bit period in microseconds; 0 before begin
  m_format,  \* frame format; its DATA_MASK bits are the data-bit count
  t_pc,      \* main-line position in the software putchar
  t_c,       \* parameter c (char), shifted right as the bits are sent
  t_i,       \* loop counter i
  t_key,     \* SREG_I saved by synchronized
  trace,     \* history of the software putchar in progress (or the last
             \* one): the call, then pin writes, delays and interrupt
             \* handler runs, in order; empty before the first call
  t_res,     \* local res: the value the software putchar returns
  \* Rotary::Dial<T>
  m_value, m_min, m_max, m_step,
  changed,   \* history of the last on_event: "none" before any event,
             \* "quiet" when on_change was not called, "same" when it was
             \* called with the value unchanged, "moved" otherwise
  \* second hardware channel (ATmega1284P)
  uart1,     \* registered instance: 0 (null) or 1 (the instance)
  obuf1,     \* output IOBuffer of the instance
  ibuf1,     \* input IOBuffer of the instance
  UCSR1B,    \* control register B of channel 1: set of bits
  UDR1       \* transmit data register of channel 1

tinyvars == <<m_period, m_format, t_pc, t_c, t_i, t_key, trace, t_res>>
dialvars == <<m_value, m_min, m_max, m_step, changed>>
u1vars == <<uart1, obuf1, ibuf1, UCSR1B, UDR1>>
\* What the hardware variant on channel 0 never touches.
xvars == <<tinyvars, dialvars, u1vars>>
\* What only the hardware variant on channel 0 touches.
u0vars == <<obuf, ibuf, UCSRnA, UCSRnB, UCSRnC, UBRRn, UDR0, SMCR_SE, pc, m_c,
            unsent, unread>>
vars == <<obuf, ibuf, UCSRnA, UCSRnB, UCSRnC, UBRRn, UDR0, SREG_I, SMCR_SE,
          pc, m_c, unsent, unread, last, entry_I, xvars>>
regs == <<UCSRnA, UCSRnB, UCSRnC, UBRRn>>

\* ------------------------------------------------ Circular Byte Buffer
\* IOBuffer(size, buffer): empty ring of capacity size over a zeroed
\* static array.
IOBuffer_new(size) ==
  [buf |-> [i \in 0..(size - 1) |-> 0], size |-> size, head |-> 0,
   tail |-> 0, count |-> 0]

IOBuffer_is_full(b) == b.count = b.size
IOBuffer_is_empty(b) == b.count = 0

\* put: insert at head, advance head, increment count; full: no change.
IOBuffer_put(b, c) ==
  IF IOBuffer_is_full(b)
  THEN b
  ELSE [b EXCEPT !.buf[b.head] = c % 256,
                 !.head = (b.head + 1) % b.size,
                 !.count = b.count + 1]

\* Value returned by put: the byte, or -1 when full.
IOBuffer_put_ret(b, c) == IF IOBuffer_is_full(b) THEN -1 ELSE c % 256

\* get: remove at tail, advance tail, decrement count; empty: no change.
IOBuffer_get(b) ==
  IF IOBuffer_is_empty(b)
  THEN b
  ELSE [b EXCEPT !.tail = (b.tail + 1) % b.size,
                 !.count = b.count - 1]

\* Value returned by get: the byte at tail, or -1 when empty.
IOBuffer_get_ret(b) == IF IOBuffer_is_empty(b) THEN -1 ELSE b.buf[b.tail]

\* flush: reset to empty, discarding contents.
IOBuffer_flush(b) == [b EXCEPT !.head = 0, !.tail = 0, !.count = 0]

\* The queued bytes, oldest first.
Contents(b) == [i \in 1..b.count |-> b.buf[(b.tail + i - 1) % b.size]]

\* Mutant of ibuf_static: the ring is given one slot less than the array.
ibuf_ShortBy1 == IOBuffer_new(BUFFER_MAX - 1)

\* static char ibuffer[UART::BUFFER_MAX];
\* static IOBuffer ibuf(sizeof(ibuffer), ibuffer);
ibuf_static == IOBuffer_new(BUFFER_MAX)

\* static char obuffer[UART::BUFFER_MAX];
\* static IOBuffer obuf(sizeof(obuffer), obuffer);
obuf_static == IOBuffer_new(BUFFER_MAX)

\* ------------------------------------------------------------ helpers
\* uint16_t setting = (F_CPU / (baudrate * k)) - 1: the quotient is an
\* unsigned 32 bit value, the difference wraps modulo 2^32 and is narrowed
\* to 16 bits; 2^16 divides 2^32, so the result is the difference modulo
\* 2^16.  (Every baud rate of Bauds is below 2^27: baudrate * 16 does not
\* wrap.)
Setting(baudrate, k) == ((F_CPU \div (baudrate * k)) - 1) % 65536

\* sleep_cpu() returns when an interrupt handler has run.
Wake(p) ==
  IF p = "asleep" THEN "sleep_disable"
  ELSE IF p = "asleep1" THEN "sleep_disable1"
  ELSE p

\* Channel 0 after the static constructors; either state of the global
\* interrupt flag.
Init_uart ==
  /\ obuf = obuf_static
  /\ ibuf = ibuf_static
  /\ UCSRnA = {}
  /\ UCSRnB = {}
  /\ UCSRnC = 6
  /\ UBRRn = 0
  /\ UDR0 = 0
  /\ SREG_I \in BOOLEAN
  /\ SMCR_SE = FALSE
  /\ pc = "idle"
  /\ m_c = 0
  /\ unsent = <<>>
  /\ unread = <<>>
  /\ last = [op |-> "init", arg |-> 0, ret |-> 0]
  /\ entry_I = SREG_I

\* UART uart(Board::D0): the software port before begin.
Init_tiny ==
  /\ m_period = 0
  /\ m_format = 0
  /\ t_pc = "idle"
  /\ t_c = 0
  /\ t_i = 0
  /\ t_key = FALSE
  /\ trace = <<>>
  /\ t_res = 0

\* No dial in use.
Init_dial ==
  /\ m_value = 0
  /\ m_min = 0
  /\ m_max = 0
  /\ m_step = 0
  /\ changed = "none"

\* UART* uart1 = 0; the instance for channel 1 exists with empty buffers.
Init_uart1 ==
  /\ uart1 = 0
  /\ obuf1 = IOBuffer_new(BUFFER_MAX)
  /\ ibuf1 = IOBuffer_new(BUFFER_MAX)
  /\ UCSR1B = {}
  /\ UDR1 = 0

Init == Init_uart /\ Init_tiny /\ Init_dial /\ Init_uart1

\* ------------------------------------------------------- UART::begin
UART_begin(baudrate, format) ==
  /\ pc = "idle"
  /\ LET setting == Setting(baudrate, 8) IN
       IF setting > UBRR_MAX
       THEN /\ UBRRn' = Setting(baudrate, 16)
            /\ UCSRnA' = UCSRnA
       ELSE /\ UBRRn' = setting
            /\ UCSRnA' = {U2X0}
  /\ UCSRnB' = {RXCIE0, RXEN0, TXEN0}
  /\ UCSRnC' = format
  /\ last' = [op |-> "begin", arg |-> baudrate, ret |-> 1]
  /\ UNCHANGED <<obuf, ibuf, UDR0, SREG_I, SMCR_SE, pc, m_c, unsent, unread>>
  /\ UNCHANGED <<entry_I, xvars>>

\* The port is closed while receiver and transmitter are disabled.
Closed == UCSRnB \cap {RXEN0, TXEN0} = {}

\* --------------------------------------------------------- UART::end
\* Mutant of UART_end: the enable bits are toggled (^=) instead of
\* cleared (&= ~).
UART_end_Toggle ==
  /\ pc = "idle"
  /\ UCSRnB' = (UCSRnB \ {RXCIE0, RXEN0, TXEN0})
                  \cup ({RXCIE0, RXEN0, TXEN0} \ UCSRnB)
  /\ obuf' = IOBuffer_flush(obuf)
  /\ ibuf' = IOBuffer_flush(ibuf)
  /\ unsent' = <<>>
  /\ unread' = <<>>
  /\ last' = [op |-> "end",
              arg |-> IF last.op = "end" THEN 2 ELSE IF Closed THEN 1 ELSE 0,
              ret |-> 1]
  /\ UNCHANGED <<UCSRnA, UCSRnC, UBRRn, UDR0, SREG_I, SMCR_SE, pc, m_c>>
  /\ UNCHANGED <<entry_I, xvars>>

\* last.arg records how the call found the port: 0 open, 1 closed,
\* 2 closed by an end() that returned just before.
UART_end ==
  /\ pc = "idle"
  /\ UCSRnB' = UCSRnB \ {RXCIE0, RXEN0, TXEN0}
  /\ obuf' = IOBuffer_flush(obuf)
  /\ ibuf' = IOBuffer_flush(ibuf)
  /\ unsent' = <<>>
  /\ unread' = <<>>
  /\ last' = [op |-> "end",
              arg |-> IF last.op = "end" THEN 2 ELSE IF Closed THEN 1 ELSE 0,
              ret |-> 1]
  /\ UNCHANGED <<UCSRnA, UCSRnC, UBRRn, UDR0, SREG_I, SMCR_SE, pc, m_c>>
  /\ UNCHANGED <<entry_I, xvars>>

\* ----------------------------------------------------- UART::getchar
\* read(): dequeue from the input buffer, never blocks.
UART_getchar ==
  /\ pc = "idle"
  /\ ibuf' = IOBuffer_get(ibuf)
  /\ unread' = IF unread = <<>> THEN unread ELSE Tail(unread)
  /\ last' = [op |-> "getchar", arg |-> 0, ret |-> IOBuffer_get_ret(ibuf)]
  /\ UNCHANGED <<obuf, regs, UDR0, SREG_I, SMCR_SE, pc, m_c, unsent>>
  /\ UNCHANGED <<entry_I, xvars>>

\* ----------------------------------------------------- UART::putchar
\* Call: main-line enters putchar(c).
UART_putchar_call(c) ==
  /\ pc = "idle"
  /\ pc' = "while"
  /\ m_c' = c
  /\ UNCHANGED <<obuf, ibuf, regs, UDR0, SREG_I, SMCR_SE, unsent, unread,
                 last>>
  /\ entry_I' = SREG_I
  /\ UNCHANGED xvars

\* Mutant of UART_putchar_while: the result of m_obuf->putchar(c) is not
\* tested, so a byte offered to a full buffer is taken as written.
UART_putchar_while_NoWait ==
  /\ pc = "while"
  /\ obuf' = IOBuffer_put(obuf, m_c)
  /\ pc' = "udrie"
  /\ unsent' = Append(unsent, m_c % 256)
  /\ UNCHANGED <<ibuf, regs, UDR0, SREG_I, SMCR_SE, m_c, unread, last>>
  /\ UNCHANGED <<entry_I, xvars>>

\* while (m_obuf->putchar(c) == -1)
UART_putchar_while ==
  /\ pc = "while"
  /\ obuf' = IOBuffer_put(obuf, m_c)
  /\ IF IOBuffer_put_ret(obuf, m_c) = -1
     THEN /\ pc' = "cli"
          /\ unsent' = unsent
     ELSE /\ pc' = "udrie"
          /\ unsent' = Append(unsent, m_c % 256)
  /\ UNCHANGED <<ibuf, regs, UDR0, SREG_I, SMCR_SE, m_c, unread, last>>
  /\ UNCHANGED <<entry_I, xvars>>

\* cli(); set_sleep_mode(mode); sleep_enable();
UART_putchar_cli ==
  /\ pc = "cli"
  /\ SREG_I' = FALSE
  /\ SMCR_SE' = TRUE
  /\ pc' = "sei"
  /\ UNCHANGED <<obuf, ibuf, regs, UDR0, m_c, unsent, unread, last>>
  /\ UNCHANGED <<entry_I, xvars>>

\* Mutant of UART_putchar_sei: sei() is left out before sleep_cpu().
UART_putchar_sei_NoSei ==
  /\ pc = "sei"
  /\ pc' = IF SMCR_SE THEN "asleep" ELSE "sleep_disable"
  /\ UNCHANGED <<obuf, ibuf, regs, UDR0, SREG_I, SMCR_SE, m_c, unsent, unread, last>>
  /\ UNCHANGED <<entry_I, xvars>>

\* sei(); sleep_cpu(); the instruction after sei executes before any
\* pending interrupt is served, so the processor is asleep when the first
\* handler runs.
UART_putchar_sei ==
  /\ pc = "sei"
  /\ SREG_I' = TRUE
  /\ pc' = IF SMCR_SE THEN "asleep" ELSE "sleep_disable"
  /\ UNCHANGED <<obuf, ibuf, regs, UDR0, SMCR_SE, m_c, unsent, unread, last>>
  /\ UNCHANGED <<entry_I, xvars>>

\* sleep_disable(); then back to the loop condition.
UART_putchar_sleep_disable ==
  /\ pc = "sleep_disable"
  /\ SMCR_SE' = FALSE
  /\ pc' = "while"
  /\ UNCHANGED <<obuf, ibuf, regs, UDR0, SREG_I, m_c, unsent, unread, last>>
  /\ UNCHANGED <<entry_I, xvars>>

\* *UCSRnB() |= _BV(UDRIE0); return (c & 0xff); the argument goes out of
\* scope.
UART_putchar_udrie ==
  /\ pc = "udrie"
  /\ UCSRnB' = UCSRnB \cup {UDRIE0}
  /\ pc' = "idle"
  /\ m_c' = 0
  /\ last' = [op |-> "putchar", arg |-> 0, ret |-> m_c % 256]
  /\ UNCHANGED <<obuf, ibuf, UCSRnA, UCSRnC, UBRRn, UDR0, SREG_I, SMCR_SE,
                 unsent, unread>>
  /\ UNCHANGED <<entry_I, xvars>>

\* The statements of putchar main-line executes by itself.
UART_putchar_step ==
  \/ UART_putchar_while
  \/ UART_putchar_cli
  \/ UART_putchar_sei
  \/ UART_putchar_sleep_disable
  \/ UART_putchar_udrie

\* Mutant of ISR_USART_UDRE_vect: the handler also disables its interrupt
\* when it has just taken the last byte.
ISR_USART_UDRE_vect_EagerDisable ==
  /\ SREG_I
  /\ UDRIE0 \in UCSRnB
  /\ obuf' = IOBuffer_get(obuf)
  /\ LET c == IOBuffer_get_ret(obuf) IN
       /\ UDR0' = IF c # -1 THEN c % 256 ELSE UDR0
       /\ UCSRnB' = IF IOBuffer_is_empty(IOBuffer_get(obuf))
                     THEN UCSRnB \ {UDRIE0} ELSE UCSRnB
       /\ last' = [op |-> "udre", arg |-> 0, ret |-> c]
  /\ unsent' = IF unsent = <<>> THEN unsent ELSE Tail(unsent)
  /\ pc' = Wake(pc)
  /\ UNCHANGED <<ibuf, UCSRnA, UCSRnC, UBRRn, SREG_I, SMCR_SE, m_c, unread>>
  /\ UNCHANGED <<entry_I, xvars>>

\* Mutant of ISR_USART_UDRE_vect: on an empty buffer the handler clears the
\* whole control register (UCSR0B = 0) instead of the one bit.
ISR_USART_UDRE_vect_ClearAll ==
  /\ SREG_I
  /\ UDRIE0 \in UCSRnB
  /\ obuf' = IOBuffer_get(obuf)
  /\ LET c == IOBuffer_get_ret(obuf) IN
       /\ IF c # -1
          THEN /\ UDR0' = c % 256
               /\ UCSRnB' = UCSRnB
          ELSE /\ UDR0' = UDR0
               /\ UCSRnB' = {}
       /\ last' = [op |-> "udre", arg |-> 0, ret |-> c]
  /\ unsent' = IF unsent = <<>> THEN unsent ELSE Tail(unsent)
  /\ pc' = Wake(pc)
  /\ UNCHANGED <<ibuf, UCSRnA, UCSRnC, UBRRn, SREG_I, SMCR_SE, m_c, unread>>
  /\ UNCHANGED <<entry_I, xvars>>

\* ------------------------------------------------ ISR(USART_UDRE_vect)
\* Data register empty: raised while UDRIE0 and the global flag are set.
ISR_USART_UDRE_vect ==
  /\ SREG_I
  /\ UDRIE0 \in UCSRnB
  /\ obuf' = IOBuffer_get(obuf)
  /\ LET c == IOBuffer_get_ret(obuf) IN
       /\ IF c # -1
          THEN /\ UDR0' = c % 256
               /\ UCSRnB' = UCSRnB
          ELSE /\ UDR0' = UDR0
               /\ UCSRnB' = UCSRnB \ {UDRIE0}
       /\ last' = [op |-> "udre", arg |-> 0, ret |-> c]
  /\ unsent' = IF unsent = <<>> THEN unsent ELSE Tail(unsent)
  /\ pc' = Wake(pc)
  /\ UNCHANGED <<ibuf, UCSRnA, UCSRnC, UBRRn, SREG_I, SMCR_SE, m_c, unread>>
  /\ UNCHANGED <<entry_I, xvars>>

\* -------------------------------------------------- ISR(USART_RX_vect)
\* Mutant of ISR_USART_RX_vect: a byte received on a full buffer replaces
\* the oldest queued byte.
ISR_USART_RX_vect_DropOldest(udr0) ==
  /\ SREG_I
  /\ RXCIE0 \in UCSRnB
  /\ RXEN0 \in UCSRnB
  /\ ibuf' = IF IOBuffer_is_full(ibuf)
             THEN IOBuffer_put(IOBuffer_get(ibuf), udr0)
             ELSE IOBuffer_put(ibuf, udr0)
  /\ unread' = IF IOBuffer_put_ret(ibuf, udr0) = -1
               THEN unread
               ELSE Append(unread, udr0 % 256)
  /\ last' = [op |-> "rx", arg |-> 0, ret |-> IOBuffer_put_ret(ibuf, udr0)]
  /\ pc' = Wake(pc)
  /\ UNCHANGED <<obuf, regs, UDR0, SREG_I, SMCR_SE, m_c, unsent>>
  /\ UNCHANGED <<entry_I, xvars>>

\* Receive complete with byte udr0 in the data register: raised while
\* the receiver, RXCIE0 and the global flag are set.
ISR_USART_RX_vect(udr0) ==
  /\ SREG_I
  /\ RXCIE0 \in UCSRnB
  /\ RXEN0 \in UCSRnB
  /\ ibuf' = IOBuffer_put(ibuf, udr0)
  /\ unread' = IF IOBuffer_put_ret(ibuf, udr0) = -1
               THEN unread
               ELSE Append(unread, udr0 % 256)
  /\ last' = [op |-> "rx", arg |-> 0, ret |-> IOBuffer_put_ret(ibuf, udr0)]
  /\ pc' = Wake(pc)
  /\ UNCHANGED <<obuf, regs, UDR0, SREG_I, SMCR_SE, m_c, unsent>>
  /\ UNCHANGED <<entry_I, xvars>>

Next ==
  \/ \E b \in Bauds, f \in Formats : UART_begin(b, f)
  \/ UART_end
  \/ UART_getchar
  \/ \E c \in Bytes : UART_putchar_call(c)
  \/ UART_putchar_step
  \/ ISR_USART_UDRE_vect
  \/ \E c \in Bytes : ISR_USART_RX_vect(c)

Spec == Init /\ [][Next]_vars

\* Main-line executes its next statement unless asleep (weak fairness).
\* The hardware raises data-register-empty whenever UDRIE0 is set, and a
\* pending interrupt is served as soon as the global flag allows it: it is
\* not lost while main-line passes through cli()/sei(), nor starved by
\* receive interrupts (strong fairness).  Nothing obliges the line to
\* deliver received bytes.
LiveSpec ==
  Init /\ [][Next]_vars /\ WF_vars(UART_putchar_step)
       /\ SF_vars(ISR_USART_UDRE_vect)

\* Configuration runs: begin and end only, over the wider baud rates.
CfgNext ==
  \/ \E b \in CfgBauds, f \in CfgFormats : UART_begin(b, f)
  \/ UART_end

CfgSpec == Init /\ [][CfgNext]_vars

\* ======================================= software variant (ATtiny)
\* Events of the history.
Ev(k, v) == [k |-> k, v |-> v]

\* uint8_t bits = m_format & DATA_MASK (DATA_MASK + 1 is a power of two).
Bits == m_format % (DATA_MASK + 1)

\* Number of handler runs recorded in a history.
IsrCount(tr) == Len(SelectSeq(tr, LAMBDA e : e.k = "isr"))

\* UART::begin(baudrate, format): stores the bit period in microseconds and
\* the format.  (Every period of TinyBauds times 32 is below 2^15.)
Tiny_begin(baudrate, format) ==
  /\ t_pc = "idle"
  /\ m_period' = 1000000 \div baudrate
  /\ m_format' = format
  /\ trace' = <<>>
  /\ UNCHANGED <<t_pc, t_c, t_i, t_key, t_res>>
  /\ UNCHANGED <<u0vars, SREG_I, last, entry_I, dialvars, u1vars>>

\* UART::putchar(char c), entry: int res = (c & 0xff).  Calls are taken
\* after begin.
Tiny_putchar_call(c) ==
  /\ t_pc = "idle"
  /\ m_period # 0
  /\ t_c' = c
  /\ t_res' = c % 256
  /\ t_i' = 0
  /\ trace' = <<Ev("call", c)>>
  /\ entry_I' = SREG_I
  /\ t_pc' = "lock"
  /\ UNCHANGED <<m_period, m_format, t_key>>
  /\ UNCHANGED <<u0vars, SREG_I, last, dialvars, u1vars>>

\* Mutant of Tiny_putchar_lock: the block is entered without disabling
\* interrupts.
Tiny_putchar_lock_NoCli ==
  /\ t_pc = "lock"
  /\ t_key' = SREG_I
  /\ t_pc' = "start"
  /\ UNCHANGED <<m_period, m_format, t_c, t_i, trace, t_res>>
  /\ UNCHANGED <<u0vars, SREG_I, last, entry_I, dialvars, u1vars>>

\* synchronized {: save SREG and disable interrupts.
Tiny_putchar_lock ==
  /\ t_pc = "lock"
  /\ t_key' = SREG_I
  /\ SREG_I' = FALSE
  /\ t_pc' = "start"
  /\ UNCHANGED <<m_period, m_format, t_c, t_i, trace, t_res>>
  /\ UNCHANGED <<u0vars, last, entry_I, dialvars, u1vars>>

\* m_pin.write(0); DELAY(m_period); i = 0.
Tiny_putchar_start ==
  /\ t_pc = "start"
  /\ trace' = trace \o <<Ev("pin", 0), Ev("delay", m_period)>>
  /\ t_i' = 0
  /\ t_pc' = "loop"
  /\ UNCHANGED <<m_period, m_format, t_c, t_key, t_res>>
  /\ UNCHANGED <<u0vars, SREG_I, last, entry_I, dialvars, u1vars>>

\* Mutant of Tiny_putchar_bit: the most significant bit of the byte is
\* sent first (c & 0x80, c <<= 1).
Tiny_putchar_bit_MsbFirst ==
  /\ t_pc = "loop"
  /\ t_i < Bits
  /\ trace' = trace \o <<Ev("pin", ((t_c % 256) \div 128) % 2),
                         Ev("delay", m_period)>>
  /\ t_c' = (t_c * 2) % 256
  /\ t_i' = t_i + 1
  /\ UNCHANGED <<m_period, m_format, t_pc, t_key, t_res>>
  /\ UNCHANGED <<u0vars, SREG_I, last, entry_I, dialvars, u1vars>>

\* Mutant of Tiny_putchar_bit: c >>= 1 is left out.
Tiny_putchar_bit_NoShift ==
  /\ t_pc = "loop"
  /\ t_i < Bits
  /\ trace' = trace \o <<Ev("pin", t_c % 2), Ev("delay", m_period)>>
  /\ t_i' = t_i + 1
  /\ UNCHANGED <<m_period, m_format, t_pc, t_c, t_key, t_res>>
  /\ UNCHANGED <<u0vars, SREG_I, last, entry_I, dialvars, u1vars>>

\* One turn of the loop: m_pin.write(c & 1); DELAY(m_period); c >>= 1; i++.
\* c is a signed char: c & 1 is c modulo 2 and c >> 1 is the floor of c / 2.
Tiny_putchar_bit ==
  /\ t_pc = "loop"
  /\ t_i < Bits
  /\ trace' = trace \o <<Ev("pin", t_c % 2), Ev("delay", m_period)>>
  /\ t_c' = t_c \div 2
  /\ t_i' = t_i + 1
  /\ UNCHANGED <<m_period, m_format, t_pc, t_key, t_res>>
  /\ UNCHANGED <<u0vars, SREG_I, last, entry_I, dialvars, u1vars>>

\* Loop exit: m_pin.write(1).
Tiny_putchar_stop ==
  /\ t_pc = "loop"
  /\ ~(t_i < Bits)
  /\ trace' = trace \o <<Ev("pin", 1)>>
  /\ t_pc' = "unlock"
  /\ UNCHANGED <<m_period, m_format, t_c, t_i, t_key, t_res>>
  /\ UNCHANGED <<u0vars, SREG_I, last, entry_I, dialvars, u1vars>>

\* } of synchronized: restore SREG.
Tiny_putchar_unlock ==
  /\ t_pc = "unlock"
  /\ SREG_I' = t_key
  /\ t_pc' = "guard"
  /\ UNCHANGED <<m_period, m_format, t_c, t_i, t_key, trace, t_res>>
  /\ UNCHANGED <<u0vars, last, entry_I, dialvars, u1vars>>

\* DELAY(m_period * 32); return (res).
Tiny_putchar_guard ==
  /\ t_pc = "guard"
  /\ trace' = trace \o <<Ev("delay", m_period * 32)>>
  /\ t_pc' = "idle"
  /\ UNCHANGED <<m_period, m_format, t_c, t_i, t_key, t_res>>
  /\ UNCHANGED <<u0vars, SREG_I, last, entry_I, dialvars, u1vars>>

Tiny_putchar_step ==
  \/ Tiny_putchar_lock
  \/ Tiny_putchar_start
  \/ Tiny_putchar_bit
  \/ Tiny_putchar_stop
  \/ Tiny_putchar_unlock
  \/ Tiny_putchar_guard

\* Some interrupt handler of the application runs to completion while
\* main-line is inside putchar: admitted only while the I flag is set, and
\* the flag is as before when it returns.
Tiny_ISR ==
  /\ t_pc # "idle"
  /\ SREG_I
  /\ IsrCount(trace) < MaxIsr
  /\ trace' = trace \o <<Ev("isr", 0)>>
  /\ UNCHANGED <<m_period, m_format, t_pc, t_c, t_i, t_key, t_res>>
  /\ UNCHANGED <<u0vars, SREG_I, last, entry_I, dialvars, u1vars>>

TinyNext ==
  \/ \E b \in TinyBauds, f \in TinyFormats : Tiny_begin(b, f)
  \/ \E c \in TinyChars : Tiny_putchar_call(c)
  \/ Tiny_putchar_step
  \/ Tiny_ISR

TinySpec == Init /\ [][TinyNext]_vars

\* ============================================ Rotary::Dial<uint8_t>
\* Arithmetic of T = uint8_t: the sum or difference is converted back to T.
WrapT(x) == x % 256

\* Dial(clk, dt, mode, initial, min, max, step) with min <= initial <= max.
DialInit ==
  /\ Init_uart
  /\ Init_tiny
  /\ Init_uart1
  /\ \E min \in 0..DialTop, max \in 0..DialTop, initial \in 0..DialTop,
        step \in DialSteps :
       /\ min <= initial
       /\ initial <= max
       /\ m_value = initial
       /\ m_min = min
       /\ m_max = max
       /\ m_step = step
  /\ changed = "none"

\* T get_value()
Dial_get_value == m_value

\* on_event(type, value): the event value is the direction; whatever is not
\* CW counts down.  changed records whether on_change was called and with
\* what.
Dial_on_event(value) ==
  /\ IF value = CW
     THEN IF m_value = m_max
          THEN /\ m_value' = m_value
               /\ changed' = "quiet"
          ELSE /\ m_value' = WrapT(m_value + m_step)
               /\ changed' = IF m_value' = m_value THEN "same" ELSE "moved"
     ELSE IF m_value = m_min
          THEN /\ m_value' = m_value
               /\ changed' = "quiet"
          ELSE /\ m_value' = WrapT(m_value - m_step)
               /\ changed' = IF m_value' = m_value THEN "same" ELSE "moved"
  /\ UNCHANGED <<m_min, m_max, m_step>>
  /\ UNCHANGED <<u0vars, SREG_I, last, entry_I, tinyvars, u1vars>>

\* void set_cycle(T step)
Dial_set_cycle(step) ==
  /\ m_step' = step
  /\ UNCHANGED <<m_value, m_min, m_max, changed>>
  /\ UNCHANGED <<u0vars, SREG_I, last, entry_I, tinyvars, u1vars>>

DialNext ==
  \/ \E value \in {CW, CCW} : Dial_on_event(value)
  \/ \E step \in DialSteps : Dial_set_cycle(step)

DialSpec == DialInit /\ [][DialNext]_vars

\* ===================================== second channel (ATmega1284P)
\* Channel 0 at rest after begin(9600, 6), a received byte 1 and
\* putchar(1), with interrupts enabled and the handlers not yet served.
Busy_uart ==
  /\ obuf = IOBuffer_put(obuf_static, 1)
  /\ ibuf = IOBuffer_put(ibuf_static, 1)
  /\ UCSRnA = {U2X0}
  /\ UCSRnB = {RXCIE0, RXEN0, TXEN0, UDRIE0}
  /\ UCSRnC = 6
  /\ UBRRn = Setting(9600, 8)
  /\ UDR0 = 0
  /\ SREG_I = TRUE
  /\ SMCR_SE = FALSE
  /\ pc = "idle"
  /\ m_c = 0
  /\ unsent = <<1>>
  /\ unread = <<1>>
  /\ last = [op |-> "putchar", arg |-> 0, ret |-> 1]
  /\ entry_I = TRUE

\* Channel 0 is fresh or busy; uart1 is null.
Uart1Init ==
  /\ Init_uart \/ Busy_uart
  /\ Init_tiny
  /\ Init_dial
  /\ Init_uart1

\* Channel 0's buffers, registers and histories: what main-line calls on
\* the instance of channel 1 never touch.
c0rest == <<obuf, ibuf, UCSRnA, UCSRnB, UCSRnC, UBRRn, UDR0, unsent, unread>>

\* The application binds the instance to channel 1 (uart1 = &instance) or
\* unbinds it (uart1 = 0).
Uart1_bind(p) ==
  /\ pc = "idle"
  /\ uart1 # p
  /\ uart1' = p
  /\ UNCHANGED <<obuf1, ibuf1, UCSR1B, UDR1>>
  /\ UNCHANGED <<u0vars, SREG_I, last, entry_I, tinyvars, dialvars>>

\* begin on the instance: its control register as channel 0's (the divisor
\* and format registers of channel 1 are not part of the state).
UART1_begin ==
  /\ pc = "idle"
  /\ UCSR1B' = {RXCIE0, RXEN0, TXEN0}
  /\ last' = [op |-> "begin1", arg |-> uart1, ret |-> 1]
  /\ UNCHANGED <<uart1, obuf1, ibuf1, UDR1>>
  /\ UNCHANGED <<u0vars, SREG_I, entry_I, tinyvars, dialvars>>

\* end on the instance: clear the enable bits of UCSR1B, flush its buffers.
UART1_end ==
  /\ pc = "idle"
  /\ UCSR1B' = UCSR1B \ {RXCIE0, RXEN0, TXEN0}
  /\ obuf1' = IOBuffer_flush(obuf1)
  /\ ibuf1' = IOBuffer_flush(ibuf1)
  /\ last' = [op |-> "end1", arg |-> uart1, ret |-> 1]
  /\ UNCHANGED <<uart1, UDR1>>
  /\ UNCHANGED <<u0vars, SREG_I, entry_I, tinyvars, dialvars>>

\* getchar on the instance: dequeue from its input buffer.
UART1_getchar ==
  /\ pc = "idle"
  /\ ibuf1' = IOBuffer_get(ibuf1)
  /\ last' = [op |-> "getchar1", arg |-> uart1, ret |-> IOBuffer_get_ret(ibuf1)]
  /\ UNCHANGED <<uart1, obuf1, UCSR1B, UDR1>>
  /\ UNCHANGED <<u0vars, SREG_I, entry_I, tinyvars, dialvars>>

\* putchar on the instance, statement by statement as on channel 0; the
\* positions of main-line carry the suffix 1.
UART1_putchar_call(c) ==
  /\ pc = "idle"
  /\ pc' = "while1"
  /\ m_c' = c
  /\ entry_I' = SREG_I
  /\ UNCHANGED <<c0rest, SREG_I, SMCR_SE, last, u1vars, tinyvars, dialvars>>

\* while (m_obuf->putchar(c) == -1) on the instance's output buffer.
UART1_putchar_while ==
  /\ pc = "while1"
  /\ obuf1' = IOBuffer_put(obuf1, m_c)
  /\ pc' = IF IOBuffer_put_ret(obuf1, m_c) = -1 THEN "cli1" ELSE "udrie1"
  /\ UNCHANGED <<uart1, ibuf1, UCSR1B, UDR1>>
  /\ UNCHANGED <<c0rest, SREG_I, SMCR_SE, m_c, last, entry_I, tinyvars, dialvars>>

\* cli(); set_sleep_mode(mode); sleep_enable();
UART1_putchar_cli ==
  /\ pc = "cli1"
  /\ SREG_I' = FALSE
  /\ SMCR_SE' = TRUE
  /\ pc' = "sei1"
  /\ UNCHANGED <<c0rest, m_c, last, entry_I, u1vars, tinyvars, dialvars>>

\* sei(); sleep_cpu(): the instruction after sei executes before any
\* interrupt is served.
UART1_putchar_sei ==
  /\ pc = "sei1"
  /\ SREG_I' = TRUE
  /\ pc' = IF SMCR_SE THEN "asleep1" ELSE "sleep_disable1"
  /\ UNCHANGED <<c0rest, SMCR_SE, m_c, last, entry_I, u1vars, tinyvars, dialvars>>

\* sleep_disable(); back to the loop test.
UART1_putchar_sleep_disable ==
  /\ pc = "sleep_disable1"
  /\ SMCR_SE' = FALSE
  /\ pc' = "while1"
  /\ UNCHANGED <<c0rest, SREG_I, m_c, last, entry_I, u1vars, tinyvars, dialvars>>

\* *UCSRnB() |= _BV(UDRIE0); return (c & 0xff);
UART1_putchar_udrie ==
  /\ pc = "udrie1"
  /\ UCSR1B' = UCSR1B \cup {UDRIE0}
  /\ pc' = "idle"
  /\ m_c' = 0
  /\ last' = [op |-> "putchar1", arg |-> uart1, ret |-> m_c % 256]
  /\ UNCHANGED <<uart1, obuf1, ibuf1, UDR1>>
  /\ UNCHANGED <<c0rest, SREG_I, SMCR_SE, entry_I, tinyvars, dialvars>>

UART1_putchar_step ==
  \/ UART1_putchar_while
  \/ UART1_putchar_cli
  \/ UART1_putchar_sei
  \/ UART1_putchar_sleep_disable
  \/ UART1_putchar_udrie

\* Mutant of ISR_USART1_UDRE_vect: the handler takes its byte from the
\* static instance of channel 0 (uart.m_obuf).
ISR_USART1_UDRE_vect_Chan0 ==
  /\ SREG_I
  /\ UDRIE0 \in UCSR1B
  /\ IF uart1 = 0
     THEN /\ last' = [op |-> "udre1", arg |-> 0, ret |-> 0]
          /\ UNCHANGED <<obuf, UDR1, UCSR1B>>
     ELSE LET c == IOBuffer_get_ret(obuf) IN
            /\ obuf' = IOBuffer_get(obuf)
            /\ IF c # -1
               THEN /\ UDR1' = c % 256
                    /\ UCSR1B' = UCSR1B
               ELSE /\ UDR1' = UDR1
                    /\ UCSR1B' = UCSR1B \ {UDRIE0}
            /\ last' = [op |-> "udre1", arg |-> uart1, ret |-> c]
  /\ pc' = Wake(pc)
  /\ UNCHANGED <<uart1, ibuf1, obuf1>>
  /\ UNCHANGED <<ibuf, UCSRnA, UCSRnB, UCSRnC, UBRRn, UDR0, SMCR_SE, m_c,
                 unsent, unread, SREG_I, entry_I, tinyvars, dialvars>>

\* ISR(USART1_UDRE_vect): nothing when uart1 is null; else as channel 0's
\* handler on uart1's output buffer, UDR1 and UCSR1B.  last.arg records
\* uart1 as the handler found it.
ISR_USART1_UDRE_vect ==
  /\ SREG_I
  /\ UDRIE0 \in UCSR1B
  /\ IF uart1 = 0
     THEN /\ last' = [op |-> "udre1", arg |-> 0, ret |-> 0]
          /\ UNCHANGED <<obuf1, UDR1, UCSR1B>>
     ELSE LET c == IOBuffer_get_ret(obuf1) IN
            /\ obuf1' = IOBuffer_get(obuf1)
            /\ IF c # -1
               THEN /\ UDR1' = c % 256
                    /\ UCSR1B' = UCSR1B
               ELSE /\ UDR1' = UDR1
                    /\ UCSR1B' = UCSR1B \ {UDRIE0}
            /\ last' = [op |-> "udre1", arg |-> uart1, ret |-> c]
  /\ pc' = Wake(pc)
  /\ UNCHANGED <<uart1, ibuf1>>
  /\ UNCHANGED <<obuf, ibuf, UCSRnA, UCSRnB, UCSRnC, UBRRn, UDR0, SMCR_SE, m_c,
                 unsent, unread, SREG_I, entry_I, tinyvars, dialvars>>

\* ISR(USART1_RX_vect): nothing when uart1 is null; else the received byte
\* goes to uart1's input buffer.
ISR_USART1_RX_vect(udr1) ==
  /\ SREG_I
  /\ RXCIE0 \in UCSR1B
  /\ RXEN0 \in UCSR1B
  /\ IF uart1 = 0
     THEN /\ last' = [op |-> "rx1", arg |-> 0, ret |-> 0]
          /\ ibuf1' = ibuf1
     ELSE /\ ibuf1' = IOBuffer_put(ibuf1, udr1)
          /\ last' = [op |-> "rx1", arg |-> uart1,
                      ret |-> IOBuffer_put_ret(ibuf1, udr1)]
  /\ pc' = Wake(pc)
  /\ UNCHANGED <<uart1, obuf1, UCSR1B, UDR1>>
  /\ UNCHANGED <<obuf, ibuf, UCSRnA, UCSRnB, UCSRnC, UBRRn, UDR0, SMCR_SE, m_c,
                 unsent, unread, SREG_I, entry_I, tinyvars, dialvars>>

\* Main-line works on the instance of channel 1; the handlers of both
\* channels are served.
Uart1Next ==
  \/ \E p \in {0, 1} : Uart1_bind(p)
  \/ UART1_begin
  \/ UART1_end
  \/ UART1_getchar
  \/ \E c \in Bytes1 : UART1_putchar_call(c)
  \/ UART1_putchar_step
  \/ ISR_USART1_UDRE_vect
  \/ \E c \in Bytes1 : ISR_USART1_RX_vect(c)
  \/ ISR_USART_UDRE_vect
  \/ \E c \in Bytes1 : ISR_USART_RX_vect(c)

Uart1Spec == Uart1Init /\ [][Uart1Next]_vars

\* ================================================================ claims

\* C1 (backpressure liveness): whenever putchar has found the output
\* buffer full while the data-register-empty interrupt was enabled, it
\* eventually enqueues its byte and returns; main-line never sleeps inside
\* putchar forever.
C1_BackpressureLiveness ==
  (pc = "cli" /\ UDRIE0 \in UCSRnB) ~> (pc = "idle")

\* C2 (transmit path keeps every byte, in order): the bytes putchar has
\* enqueued and the handler has not yet written to the data register form
\* the queue unsent; every firing of the data-register-empty handler writes
\* the oldest of them to UDR0, and writes nothing when there is none.  So
\* the bytes written to UDR0 are, in order, a prefix of the bytes enqueued.
C2_TransmitInOrder ==
  [][ISR_USART_UDRE_vect =>
       IF unsent = <<>>
       THEN last'.ret = -1 /\ UDR0' = UDR0
       ELSE last'.ret = Head(unsent) /\ UDR0' = Head(unsent)]_vars

\* C2 witness: main-line slept in putchar on a full output buffer and the
\* handler has written the oldest byte to UDR0 and woken it.
C2_Witness ==
  /\ pc = "sleep_disable"
  /\ last.op = "udre"
  /\ last.ret = UDR0
  /\ Len(unsent) = BUFFER_MAX - 1

\* C3 (drop on full): a receive-complete handler that runs while the
\* input buffer is full leaves the buffer (contents, order, count) and the
\* bytes getchar will return exactly as they were.
C3_DropOnFull ==
  [][\A c \in Bytes :
       (ISR_USART_RX_vect(c) /\ ibuf.count = BUFFER_MAX) =>
         (ibuf' = ibuf /\ unread' = unread /\ last'.ret = -1)]_vars

\* C3 witness: the handler has just dropped a byte on a full input buffer.
C3_Witness ==
  /\ last.op = "rx"
  /\ last.ret = -1
  /\ ibuf.count = BUFFER_MAX
  /\ Len(unread) = BUFFER_MAX

\* C4 (ring buffer FIFO): the bytes a buffer holds are, oldest first, the
\* accepted bytes not yet taken out, and getchar returns the oldest
\* accepted byte not yet returned (-1 when there is none); rejected bytes
\* never appear.
C4_RingFifo ==
  /\ [](unread = Contents(ibuf) /\ unsent = Contents(obuf))
  /\ [][UART_getchar =>
         IF unread = <<>>
         THEN last'.ret = -1
         ELSE last'.ret = Head(unread) /\ unread' = Tail(unread)]_vars

\* C4 witness: getchar has returned the byte of the last slot, the tail
\* index has wrapped to slot 0 and bytes are still queued there.
C4_Witness ==
  /\ last.op = "getchar"
  /\ last.ret = 1
  /\ ibuf.tail = 0
  /\ ibuf.count >= 1

\* C5 (full/empty edge): a buffer holds between 0 and BUFFER_MAX bytes; a
\* put is accepted exactly when it holds fewer than BUFFER_MAX and then
\* adds one, else reports full (-1) and changes nothing; a get succeeds
\* exactly when it holds at least one and then removes one, else reports
\* empty (-1) and changes nothing.  From the fresh buffer this is
\* BUFFER_MAX accepted puts, then full; then BUFFER_MAX gets, then empty.
\* Stated for the input buffer (receive handler, getchar) and the output
\* buffer (putchar, data-register-empty handler).
C5_FullEmptyEdge ==
  /\ [](ibuf.count \in 0..BUFFER_MAX /\ obuf.count \in 0..BUFFER_MAX)
  /\ [][\A c \in Bytes :
         ISR_USART_RX_vect(c) =>
           IF ibuf.count < BUFFER_MAX
           THEN last'.ret = c /\ ibuf'.count = ibuf.count + 1
           ELSE last'.ret = -1 /\ ibuf' = ibuf]_vars
  /\ [][UART_getchar =>
         IF ibuf.count > 0
         THEN last'.ret # -1 /\ ibuf'.count = ibuf.count - 1
         ELSE last'.ret = -1 /\ ibuf' = ibuf]_vars
  /\ [][UART_putchar_while =>
         IF obuf.count < BUFFER_MAX
         THEN pc' = "udrie" /\ obuf'.count = obuf.count + 1
         ELSE pc' = "cli" /\ obuf' = obuf]_vars
  /\ [][ISR_USART_UDRE_vect =>
         IF obuf.count > 0
         THEN last'.ret # -1 /\ obuf'.count = obuf.count - 1
         ELSE last'.ret = -1 /\ obuf' = obuf]_vars

\* C5 witness: the input buffer took BUFFER_MAX bytes from empty at slot
\* 0 and the handler has just been refused the next one.
C5_Witness ==
  /\ last.op = "rx"
  /\ last.ret = -1
  /\ ibuf.count = BUFFER_MAX
  /\ ibuf.head = 0
  /\ ibuf.tail = 0

\* The divisor the data sheet formula gives for baud rate b at
\* oversampling k (8: double rate, 16: single rate), and whether a divisor
\* fits the 12 bit divisor range.
Divisor(b, k) == (F_CPU \div (k * b)) - 1
Fits(d) == 0 <= d /\ d <= UBRR_MAX

\* C6 (baud divisor selection): when begin(B, f) returns, double rate is
\* selected with divisor F/(8B) - 1 exactly when that value fits the
\* divisor range, and otherwise single rate with divisor F/(16B) - 1; the
\* divisor register holds that value modulo 2^16.
C6_BaudDivisorSelection ==
  last.op = "begin" =>
    IF Fits(Divisor(last.arg, 8))
    THEN U2X0 \in UCSRnA /\ UBRRn = Divisor(last.arg, 8) % 65536
    ELSE U2X0 \notin UCSRnA /\ UBRRn = Divisor(last.arg, 16) % 65536

\* C7 (fallback clears the speed-doubling flag): when a begin whose baud
\* rate overflows the double-rate divisor range returns, U2X0 is clear,
\* whatever begin and end calls came before.
C7_FallbackClearsU2X ==
  (last.op = "begin" /\ Divisor(last.arg, 8) > UBRR_MAX) =>
    U2X0 \notin UCSRnA

\* C8 (configuration error is surfaced): when the baud rate fits the
\* divisor range in neither sampling mode, begin returns failure and the
\* port is not left open.
C8_ConfigErrorSurfaced ==
  (/\ last.op = "begin"
   /\ ~Fits(Divisor(last.arg, 8))
   /\ ~Fits(Divisor(last.arg, 16))) =>
    (last.ret = 0 /\ Closed)

\* C9 (end closes the port completely): in the state in which end()
\* returns, receiver, transmitter, receive-complete interrupt and
\* data-register-empty interrupt are disabled and both buffers are empty.
C9_EndClosesPort ==
  last.op = "end" =>
    /\ UCSRnB \cap {RXEN0, TXEN0, RXCIE0, UDRIE0} = {}
    /\ IOBuffer_is_empty(obuf)
    /\ IOBuffer_is_empty(ibuf)

\* C10 as stated (end on a closed port is a no-op): end() called on a
\* closed port returns success and leaves the control register, the
\* contents of both buffers and the closed state as they were.
C10_EndOnClosedIsNoOp ==
  [][(UART_end /\ Closed) =>
       /\ last'.ret = 1
       /\ UCSRnB' = UCSRnB
       /\ Closed'
       /\ Contents(obuf') = Contents(obuf)
       /\ Contents(ibuf') = Contents(ibuf)]_vars

\* C10 amended (end is idempotent): end() returns success; called on a
\* closed port it leaves the control register and the closed state as they
\* were and leaves both buffers empty, so with no byte queued it changes
\* nothing; called right after an end() it changes no register, buffer or
\* flag at all.
C10_EndIdempotent ==
  [][UART_end =>
       /\ last'.ret = 1
       /\ Closed =>
            /\ UCSRnB' = UCSRnB
            /\ Closed'
            /\ Contents(obuf') = <<>>
            /\ Contents(ibuf') = <<>>
       /\ (Closed /\ IOBuffer_is_empty(obuf) /\ IOBuffer_is_empty(ibuf)) =>
            /\ Contents(obuf') = Contents(obuf)
            /\ Contents(ibuf') = Contents(ibuf)
       /\ last.op = "end" =>
            /\ obuf' = obuf
            /\ ibuf' = ibuf
            /\ UNCHANGED <<regs, UDR0, SREG_I, SMCR_SE, pc, m_c>>]_vars

\* C10 witness: end() has returned right after another end().
C10_Witness ==
  /\ last.op = "end"
  /\ last.arg = 2
  /\ Closed

\* C14: each run of the data-register-empty handler either (buffer not
\* empty) removes exactly the oldest byte from the output buffer, writes it
\* to UDR0 and leaves UDRIE0 set, or (buffer empty) leaves buffer and UDR0
\* alone and clears UDRIE0; it never clears UDRIE0 on a non-empty buffer.
C14_TransmitEmptyStep ==
  [][ISR_USART_UDRE_vect =>
       IF IOBuffer_is_empty(obuf)
       THEN /\ obuf' = obuf
            /\ UDR0' = UDR0
            /\ UDRIE0 \notin UCSRnB'
       ELSE /\ Contents(obuf') = Tail(Contents(obuf))
            /\ obuf'.count = obuf.count - 1
            /\ UDR0' = Head(Contents(obuf))
            /\ UDRIE0 \in UCSRnB']_vars

\* The handler has just taken the last queued byte, 1, and left its
\* interrupt enabled on the now empty buffer.
C14_Witness ==
  /\ last.op = "udre"
  /\ last.ret = 1
  /\ UDR0 = 1
  /\ IOBuffer_is_empty(obuf)
  /\ UDRIE0 \in UCSRnB

\* C15: whenever main-line is not inside putchar, a non-empty output buffer
\* has its data-register-empty interrupt enabled.
C15_NoStrandedOutput ==
  pc = "idle" => (~IOBuffer_is_empty(obuf) => UDRIE0 \in UCSRnB)

\* C16: while the processor sleeps inside putchar the global interrupt flag
\* is set, whatever it was on entry; a failed enqueue always goes to sleep
\* (cli, sleep_enable, sei, sleep_cpu) before the next attempt, and a
\* wake-up always leads to the next attempt.
C16_WaitsAsleepEnabled ==
  /\ [](pc = "asleep" => SREG_I /\ SMCR_SE)
  /\ [][(pc = "while" /\ pc' # pc) =>
          pc' = IF IOBuffer_is_full(obuf) THEN "cli" ELSE "udrie"]_vars
  /\ [][(pc = "cli" /\ pc' # pc) => pc' = "sei"]_vars
  /\ [][(pc = "sei" /\ pc' # pc) => pc' = "asleep"]_vars
  /\ [][(pc = "asleep" /\ pc' # pc) => pc' = "sleep_disable"]_vars
  /\ [][(pc = "sleep_disable" /\ pc' # pc) => pc' = "while"]_vars

\* putchar was entered with interrupts disabled and sleeps on a buffer that
\* is still full.
C16_Witness ==
  /\ pc = "asleep"
  /\ ~entry_I
  /\ SREG_I
  /\ IOBuffer_is_full(obuf)

\* C17: the receive handler leaves the output buffer, the control registers
\* and UDR0 unchanged; the data-register-empty handler leaves the input
\* buffer and every control bit other than UDRIE0 unchanged.
C17_HandlerFrame ==
  /\ [][(\E c \in Bytes : ISR_USART_RX_vect(c)) =>
          (obuf' = obuf /\ regs' = regs /\ UDR0' = UDR0)]_vars
  /\ [][ISR_USART_UDRE_vect =>
          /\ ibuf' = ibuf
          /\ UCSRnB' \ {UDRIE0} = UCSRnB \ {UDRIE0}
          /\ <<UCSRnA, UCSRnC, UBRRn>>' = <<UCSRnA, UCSRnC, UBRRn>>]_vars

\* The data-register-empty handler has just disabled itself on an open
\* port whose input buffer holds a byte.
C17_Witness ==
  /\ last.op = "udre"
  /\ last.ret = -1
  /\ UCSRnB = {RXCIE0, RXEN0, TXEN0}
  /\ ~IOBuffer_is_empty(ibuf)

\* C20: when putchar has returned, the global interrupt flag is what the
\* call found on entry.
C20_PutcharPreservesI ==
  (pc = "idle" /\ last.op = "putchar") => SREG_I = entry_I

\* The pin writes and delays of a history, in order.
Signal(tr) == SelectSeq(tr, LAMBDA e : e.k \in {"pin", "delay"})

\* The levels written to the pin, in order.
Levels(tr) ==
  LET w == SelectSeq(tr, LAMBDA e : e.k = "pin") IN
    [j \in 1..Len(w) |-> w[j].v]

\* Bit i of the two's complement representation of c.
BitOf(c, i) == (c \div (2 ^ i)) % 2

\* Start level, b data levels of c from bit 0 up, stop level; the start
\* level and each data level followed by a delay of p, the stop level by the
\* guard delay.
Frame(c, b, p) ==
  [j \in 1..(2 * b + 4) |->
     IF j = 1 THEN Ev("pin", 0)
     ELSE IF j = 2 * b + 3 THEN Ev("pin", 1)
     ELSE IF j = 2 * b + 4 THEN Ev("delay", 32 * p)
     ELSE IF j % 2 = 0 THEN Ev("delay", p)
     ELSE Ev("pin", BitOf(c, (j - 3) \div 2))]

\* A software putchar(0x41) at 9600 baud with 8 data bits has returned.
C11_Case ==
  /\ t_pc = "idle"
  /\ trace # <<>>
  /\ trace[1] = Ev("call", 65)
  /\ m_period = 1000000 \div 9600
  /\ Bits = 8

\* C11 as stated: putchar(0x41) at 9600 baud with 8 data bits writes the
\* start level 0, then the data levels 1,0,0,0,0,1,0, then the stop level 1.
C11_FrameOf0x41AsStated ==
  C11_Case => Levels(trace) = <<0>> \o <<1, 0, 0, 0, 0, 1, 0>> \o <<1>>

\* C11, amended: putchar(0x41) at 9600 baud with 8 data bits writes the
\* start level 0, then the eight data levels 1,0,0,0,0,0,1,0, then the stop
\* level 1: ten pin writes, the first nine each held for the bit period of
\* 104 microseconds, the stop level held for the guard of 32 bit periods.
C11_FrameOf0x41 ==
  C11_Case =>
    /\ Levels(trace) = <<0>> \o <<1, 0, 0, 0, 0, 0, 1, 0>> \o <<1>>
    /\ Len(Signal(trace)) = 20
    /\ \A j \in 1..9 : Signal(trace)[2 * j] = Ev("delay", 104)
    /\ Signal(trace)[19] = Ev("pin", 1)
    /\ Signal(trace)[20] = Ev("delay", 32 * 104)

\* putchar(0x41) at 9600 baud with the format 24 (8 data bits and a flag
\* above the mask) has returned 0x41.
C11_Witness ==
  /\ C11_Case
  /\ m_format = 24
  /\ t_res = 65
  /\ Len(trace) >= 21

\* C18: when a software putchar(c) has returned, with b the data-bit count
\* of the format, the pin was written level 0, then bit 0 .. bit b-1 of c,
\* then level 1: b + 2 writes, the start level and each data level followed
\* by a delay of exactly one bit period; the call returns c modulo 256.
C18_SoftFrame ==
  (t_pc = "idle" /\ trace # <<>>) =>
    /\ Signal(trace) = Frame(trace[1].v, Bits, m_period)
    /\ Len(Levels(trace)) = Bits + 2
    /\ t_res = trace[1].v % 256

\* putchar(0x80) with 7 data bits has returned 128: the frame is 0, seven
\* data levels 0, 1.
C18_Witness ==
  /\ t_pc = "idle"
  /\ trace # <<>>
  /\ trace[1] = Ev("call", -128)
  /\ Bits = 7
  /\ t_res = 128
  /\ Levels(trace) = <<0, 0, 0, 0, 0, 0, 0, 0, 1>>

\* Number of pin writes before position i of a history.
PinsBefore(tr, i) == Len(SelectSeq(SubSeq(tr, 1, i - 1), LAMBDA e : e.k = "pin"))

\* C19: no interrupt handler runs after the pin write of the start bit and
\* before the pin write of the stop bit; the I flag is clear from the entry
\* of the block to its exit, and after the block it is what the call found
\* on entry.
C19_FrameUninterrupted ==
  /\ \A i \in DOMAIN trace :
       trace[i].k = "isr" => PinsBefore(trace, i) \in {0, Bits + 2}
  /\ t_pc \in {"start", "loop", "unlock"} => ~SREG_I
  /\ (t_pc \in {"guard", "idle"} /\ trace # <<>>) => SREG_I = entry_I

\* A call entered with interrupts enabled has returned with interrupts
\* enabled; one handler ran before the frame, one after it.
C19_Witness ==
  /\ t_pc = "idle"
  /\ trace # <<>>
  /\ entry_I
  /\ SREG_I
  /\ Bits = 8
  /\ trace[2].k = "isr"
  /\ trace[Len(trace) - 1].k = "isr"
  /\ Len(trace) = 23

\* C13: the value of a dial constructed with min <= initial <= max stays
\* within min .. max after every sequence of CW/CCW events and set_cycle
\* calls, and on_change is called only when the value has changed.
C13_DialInRange ==
  /\ m_min <= Dial_get_value
  /\ Dial_get_value <= m_max
  /\ changed # "same"

\* A handler of channel 1 runs.
Isr1 == ISR_USART1_UDRE_vect \/ (\E c \in Bytes1 : ISR_USART1_RX_vect(c))

\* C12: while uart1 is null the handlers of channel 1 leave every buffer and
\* both data registers unchanged (and the control register of channel 1);
\* while an instance is registered they leave channel 0's buffers and data
\* register unchanged, the data-register-empty handler takes its byte from
\* the instance's output buffer and the receive handler puts its byte into
\* the instance's input buffer.
C12_UnboundChannelHarmless ==
  /\ [][(Isr1 /\ uart1 = 0) =>
          /\ <<obuf1, ibuf1, UDR1, UCSR1B>>' = <<obuf1, ibuf1, UDR1, UCSR1B>>
          /\ <<obuf, ibuf, UDR0>>' = <<obuf, ibuf, UDR0>>]_vars
  /\ [][(Isr1 /\ uart1 # 0) => <<obuf, ibuf, UDR0>>' = <<obuf, ibuf, UDR0>>]_vars
  /\ [][(ISR_USART1_UDRE_vect /\ uart1 # 0) =>
          /\ obuf1' = IOBuffer_get(obuf1)
          /\ ibuf1' = ibuf1
          /\ ~IOBuffer_is_empty(obuf1) => UDR1' = Head(Contents(obuf1))]_vars
  /\ [][((\E c \in Bytes1 : ISR_USART1_RX_vect(c)) /\ uart1 # 0) =>
          /\ obuf1' = obuf1
          /\ UDR1' = UDR1
          /\ ibuf1'.count >= ibuf1.count]_vars

\* The data-register-empty handler of channel 1 has run with uart1 null:
\* the instance's queued byte and channel 0's queued byte are still there.
C12_Witness ==
  /\ last.op = "udre1"
  /\ last.arg = 0
  /\ uart1 = 0
  /\ ~IOBuffer_is_empty(obuf1)
  /\ UDRIE0 \in UCSR1B
  /\ ~IOBuffer_is_empty(obuf)

====
